---- MODULE Spec2Model ----
(***************************************************************************)
(* Model of oauth_helper.py: configuration download, the brand / country  *)
(* selector, the embedded browser with its navigation interceptor, and    *)
(* the result popup with its clipboard copy.                               *)
(*                                                                         *)
(* Python strings whose characters matter (URLs, country codes, schemes,   *)
(* dictionary keys) are sequences of one-character strings.                *)
(***************************************************************************)
EXTENDS Integers, Sequences, FiniteSets, TLC

\* ------------------------------------------------------------------------
\* Bounds of the model
\* ------------------------------------------------------------------------

\* largest number of '&'-separated fields in a query string that is enumerated
MaxParams == 2

\* largest number of OAuthPopup objects one run of the model creates
MaxPopups == 2

\* ------------------------------------------------------------------------
\* Characters
\* ------------------------------------------------------------------------

UpperLetters == <<"A","B","C","D","E","F","G","H","I","J","K","L","M",
                  "N","O","P","Q","R","S","T","U","V","W","X","Y","Z">>

LowerLetters == <<"a","b","c","d","e","f","g","h","i","j","k","l","m",
                  "n","o","p","q","r","s","t","u","v","w","x","y","z">>

Digits == <<"0","1","2","3","4","5","6","7","8","9">>

Punctuation == [c \in {" ","#","%","&","+","-",".","/",":","=","?","_"} |->
                  CASE c = " " -> 32 [] c = "#" -> 35 [] c = "%" -> 37
                    [] c = "&" -> 38 [] c = "+" -> 43 [] c = "-" -> 45
                    [] c = "." -> 46 [] c = "/" -> 47 [] c = ":" -> 58
                    [] c = "=" -> 61 [] c = "?" -> 63 [] c = "_" -> 95]

IndexIn(seq, c) == CHOOSE i \in 1..Len(seq) : seq[i] = c

IsIn(seq, c) == \E i \in 1..Len(seq) : seq[i] = c

\* the code point of a character (Python's ord)
Ord(c) == IF IsIn(UpperLetters, c) THEN 64 + IndexIn(UpperLetters, c)
          ELSE IF IsIn(LowerLetters, c) THEN 96 + IndexIn(LowerLetters, c)
          ELSE IF IsIn(Digits, c) THEN 47 + IndexIn(Digits, c)
          ELSE Punctuation[c]

\* the character of a code point (Python's chr), on the modelled alphabet
Chr(n) == IF n \in 65..90 THEN UpperLetters[n - 64]
          ELSE IF n \in 97..122 THEN LowerLetters[n - 96]
          ELSE IF n \in 48..57 THEN Digits[n - 47]
          ELSE CHOOSE c \in DOMAIN Punctuation : Punctuation[c] = n

\* ------------------------------------------------------------------------
\* String helpers (str methods used by the program)
\* ------------------------------------------------------------------------

RECURSIVE Flatten(_)
\* ''.join(parts)
Flatten(parts) == IF parts = <<>> THEN <<>> ELSE Head(parts) \o Flatten(Tail(parts))

\* str.startswith
StartsWith(s, p) == /\ Len(p) <= Len(s)
                    /\ SubSeq(s, 1, Len(p)) = p

\* str.lower, character by character
Lower(s) == [i \in 1..Len(s) |->
               IF IsIn(UpperLetters, s[i]) THEN LowerLetters[IndexIn(UpperLetters, s[i])]
               ELSE s[i]]

RECURSIVE FindFrom(_, _, _)
\* the index of the first occurrence of character c at or after i, 0 when absent
FindFrom(s, c, i) == IF i > Len(s) THEN 0
                     ELSE IF s[i] = c THEN i
                     ELSE FindFrom(s, c, i + 1)

\* str.find(c), counted from 1: 0 when c does not occur
Find(s, c) == FindFrom(s, c, 1)

RECURSIVE Split(_, _)
\* str.split(c): the fields between occurrences of c, empty fields kept
Split(s, c) == LET i == Find(s, c)
               IN IF i = 0 THEN <<s>>
                  ELSE <<SubSeq(s, 1, i-1)>> \o Split(SubSeq(s, i+1, Len(s)), c)

\* s.replace('+', ' ')
PlusToSpace(s) == [i \in 1..Len(s) |-> IF s[i] = "+" THEN " " ELSE s[i]]

\* lexicographic order on strings by code point (Python's str <)
RECURSIVE StrLess(_, _)
StrLess(a, b) == IF a = <<>> THEN b # <<>>
                 ELSE IF b = <<>> THEN FALSE
                 ELSE IF Head(a) = Head(b) THEN StrLess(Tail(a), Tail(b))
                 ELSE Ord(Head(a)) < Ord(Head(b))

RECURSIVE SortedDescending(_)
\* as Sorted, but in descending order
SortedDescending(S) ==
    IF S = {} THEN <<>>
    ELSE LET m == CHOOSE x \in S : \A y \in S \ {x} : StrLess(y, x)
         IN <<m>> \o SortedDescending(S \ {m})

RECURSIVE Sorted(_)
\* sorted(keys): ascending list of a set of strings
Sorted(S) == IF S = {} THEN <<>>
             ELSE LET m == CHOOSE x \in S : \A y \in S \ {x} : StrLess(x, y)
                  IN <<m>> \o Sorted(S \ {m})

\* ------------------------------------------------------------------------
\* urllib.parse as the interceptor uses it
\* ------------------------------------------------------------------------

IsHexDigit(c) == \/ IsIn(Digits, c)
                 \/ IsIn(SubSeq(UpperLetters, 1, 6), c)
                 \/ IsIn(SubSeq(LowerLetters, 1, 6), c)

HexVal(c) == IF IsIn(Digits, c) THEN IndexIn(Digits, c) - 1
             ELSE IF IsIn(UpperLetters, c) THEN 9 + IndexIn(UpperLetters, c)
             ELSE 9 + IndexIn(LowerLetters, c)

\* one item that followed a '%': two hex digits become the character they
\* encode, anything else keeps its '%'
UnquoteItem(item) == IF Len(item) >= 2 /\ IsHexDigit(item[1]) /\ IsHexDigit(item[2])
                     THEN <<Chr(16 * HexVal(item[1]) + HexVal(item[2]))>>
                            \o SubSeq(item, 3, Len(item))
                     ELSE <<"%">> \o item

\* urllib.parse.unquote: percent-decoding
Unquote(s) == LET bits == Split(s, "%")
              IN bits[1] \o Flatten([i \in 1..(Len(bits) - 1) |-> UnquoteItem(bits[i + 1])])

\* urlparse(url_str).query: the fragment is cut at the first '#', the query
\* is what follows the first '?' of the rest
UrlQuery(url) == LET h == Find(url, "#")
                     u == IF h = 0 THEN url ELSE SubSeq(url, 1, h - 1)
                     q == Find(u, "?")
                 IN IF q = 0 THEN <<>> ELSE SubSeq(u, q + 1, Len(u))

RECURSIVE ParseFields(_)
\* the loop of parse_qsl over the '&'-separated fields, keep_blank_values and
\* strict_parsing off: a field without '=' or with an empty value is dropped,
\* name and value have '+' turned into a space and are percent-decoded
ParseFields(fields) ==
    IF fields = <<>> THEN <<>>
    ELSE LET nv == Head(fields)
             e == Find(nv, "=")
             name == SubSeq(nv, 1, e - 1)
             value == SubSeq(nv, e + 1, Len(nv))
         IN IF nv = <<>> \/ e = 0 \/ value = <<>>
            THEN ParseFields(Tail(fields))
            ELSE <<[name |-> Unquote(PlusToSpace(name)),
                    value |-> Unquote(PlusToSpace(value))]>>
                   \o ParseFields(Tail(fields))

\* parse_qsl(query): the (name, value) pairs in query order
ParseQsl(query) == IF query = <<>> THEN <<>> ELSE ParseFields(Split(query, "&"))

\* as FirstValue, but the last value recorded for key is taken
LastValue(pairs, key) ==
    IF \E i \in 1..Len(pairs) : pairs[i].name = key
    THEN pairs[CHOOSE i \in 1..Len(pairs) :
                 /\ pairs[i].name = key
                 /\ \A j \in (i + 1)..Len(pairs) : pairs[j].name # key].value
    ELSE <<>>

\* as FirstValue, but without the [""] default: the text of None when the key
\* was never recorded
FirstValueOrNone(pairs, key) ==
    IF \E i \in 1..Len(pairs) : pairs[i].name = key
    THEN pairs[CHOOSE i \in 1..Len(pairs) :
                 /\ pairs[i].name = key
                 /\ \A j \in 1..(i - 1) : pairs[j].name # key].value
    ELSE <<"N","o","n","e">>

\* parse_qs(query).get(key, [""])[0]: the first value recorded for key, the
\* empty string when the key was never recorded
FirstValue(pairs, key) ==
    IF \E i \in 1..Len(pairs) : pairs[i].name = key
    THEN pairs[CHOOSE i \in 1..Len(pairs) :
                 /\ pairs[i].name = key
                 /\ \A j \in 1..(i - 1) : pairs[j].name # key].value
    ELSE <<>>

CodeKey == <<"c","o","d","e">>

\* the code the interceptor extracts from url_str
ExtractCode(url_str) == FirstValue(ParseQsl(UrlQuery(url_str)), CodeKey)

\* "{}://".format(self.scheme)
SchemePrefix(scheme) == scheme \o <<":","/","/">>

\* as IsRedirect, but comparing without regard to case
IsRedirectAnyCase(url_str, scheme) ==
    StartsWith(Lower(url_str), Lower(SchemePrefix(scheme)))

\* the test of acceptNavigationRequest on url_str
IsRedirect(url_str, scheme) == StartsWith(url_str, SchemePrefix(scheme))

\* ------------------------------------------------------------------------
\* Configurations: the JSON documents download_configs may return
\* ------------------------------------------------------------------------

BrandDS == <<"D","S">>
BrandOpel == <<"O","p","e","l">>

CountryFR == <<"F","R">>
CountryGB == <<"G","B">>
CountryDe == <<"d","e">>

SchemeDS == <<"m","y","m">>
SchemeOpel == <<"m","y","o">>

UrlDS == <<"h","t","t","p","s",":","/","/","d",".","s">>
UrlOpel == <<"h","t","t","p","s",":","/","/","o",".","p">>

FullCountry(loc, id) == [locale |-> loc, client_id |-> id]

CfgFR == FullCountry(<<"f","r","-","F","R">>, <<"i","d","1">>)
CfgGB == FullCountry(<<"e","n","-","G","B">>, <<"i","d","2">>)
CfgDe == FullCountry(<<"d","e","-","D","E">>, <<"i","d","3">>)

\* a Python dict read from JSON: its keys in document order and its values
Dict(keys, val) == [keys |-> keys, val |-> val]

EmptyDict == <<>>

\* every brand complete
ConfigGood ==
    Dict(<<BrandOpel, BrandDS>>,
         (BrandOpel :> [oauth_url |-> UrlOpel, scheme |-> SchemeOpel,
                        configs |-> (CountryGB :> CfgGB)])
         @@ (BrandDS :> [oauth_url |-> UrlDS, scheme |-> SchemeDS,
                         configs |-> (CountryDe :> CfgDe) @@ (CountryFR :> CfgFR)]))

\* a brand without the "configs" key
ConfigNoConfigs ==
    Dict(<<BrandDS, BrandOpel>>,
         (BrandDS :> [oauth_url |-> UrlDS, scheme |-> SchemeDS])
         @@ (BrandOpel :> [oauth_url |-> UrlOpel,
                           configs |-> (CountryFR :> CfgFR)]))

\* a brand whose "configs" mapping is empty
ConfigEmptyConfigs ==
    Dict(<<BrandDS, BrandOpel>>,
         (BrandDS :> [oauth_url |-> UrlDS, scheme |-> SchemeDS, configs |-> EmptyDict])
         @@ (BrandOpel :> [scheme |-> SchemeOpel,
                           configs |-> (CountryGB :> CfgGB) @@ (CountryFR :> CfgFR)]))

\* countries without "locale" or without "client_id"
ConfigMissingCountryKeys ==
    Dict(<<BrandOpel, BrandDS>>,
         (BrandOpel :> [oauth_url |-> UrlOpel, scheme |-> SchemeOpel,
                        configs |-> (CountryGB :> [client_id |-> <<"i","d","2">>])
                                    @@ (CountryFR :> [locale |-> <<"f","r","-","F","R">>])])
         @@ (BrandDS :> [oauth_url |-> UrlDS, scheme |-> SchemeDS,
                         configs |-> (CountryFR :> CfgFR)]))

\* no brand at all, and no brand with a "configs" key
ConfigNoBrands == Dict(<<>>, EmptyDict)

ConfigOnlyInvalid == Dict(<<BrandDS>>, (BrandDS :> [oauth_url |-> UrlDS, scheme |-> SchemeDS]))

Configs == {ConfigGood, ConfigNoConfigs, ConfigEmptyConfigs,
            ConfigMissingCountryKeys, ConfigNoBrands, ConfigOnlyInvalid}

\* the text of a dictionary key written as a literal in the program
KeyText(field) == CASE field = "configs" -> <<"c","o","n","f","i","g","s">>
                    [] field = "oauth_url" -> <<"o","a","u","t","h","_","u","r","l">>
                    [] field = "scheme" -> <<"s","c","h","e","m","e">>
                    [] field = "locale" -> <<"l","o","c","a","l","e">>
                    [] field = "client_id" -> <<"c","l","i","e","n","t","_","i","d">>

\* key in d
Has(d, key) == key \in DOMAIN d

\* ------------------------------------------------------------------------
\* State
\* ------------------------------------------------------------------------

VARIABLES
    pc,             \* "start" before download_configs, "running" in app.exec_(), "exited"
    exit_status,    \* the status the process ended with, once pc = "exited"
    configs,        \* the dict download_configs returned (BrandCountrySelector.configs)
    selector,       \* the BrandCountrySelector window
    error,          \* the error last reported, and whether its dialog is on screen
    browser_window, \* the OAuthBrowser window with its CustomWebPage
    lastNav,        \* the last call of acceptNavigationRequest and what it returned
    popup,          \* OAuthBrowser.popup, the OAuthPopup window
    popupsCreated,  \* how many OAuthPopup objects were constructed
    clipboard       \* the system clipboard

vars == <<pc, exit_status, configs, selector, error, browser_window, lastNav,
          popup, popupsCreated, clipboard>>

NoSelector == [exists |-> FALSE, shown |-> FALSE, valid_brands |-> <<>>,
               brand |-> <<>>, countries |-> <<>>, country |-> <<>>]

NoError == [kind |-> "none", key |-> <<>>, dialog |-> FALSE]

NoBrowser == [exists |-> FALSE, shown |-> FALSE, auth_url |-> <<>>, scheme |-> <<>>]

NoNav == [seen |-> FALSE, url |-> <<>>, engine |-> TRUE, returned |-> TRUE]

NoPopup == [exists |-> FALSE, shown |-> FALSE, id |-> 0, code |-> <<>>]

NoClipboard == [written |-> FALSE, text |-> <<>>]

Init == /\ pc = "start"
        /\ exit_status = 0
        /\ configs = ConfigNoBrands
        /\ selector = NoSelector
        /\ error = NoError
        /\ browser_window = NoBrowser
        /\ lastNav = NoNav
        /\ popup = NoPopup
        /\ popupsCreated = 0
        /\ clipboard = NoClipboard

\* ------------------------------------------------------------------------
\* Config loader and start-up
\* ------------------------------------------------------------------------

\* [b for b in configs if "configs" in configs[b]]
ValidBrands(cfgs) == SelectSeq(cfgs.keys, LAMBDA b : Has(cfgs.val[b], "configs"))

\* QComboBox.currentText after addItems on an empty box: the first item, or ""
FirstText(items) == IF items = <<>> THEN <<>> ELSE items[1]

\* update_countries(brand_name): the items and the current text of
\* country_combo afterwards
UpdateCountries(cfgs, brand_name) ==
    IF Has(cfgs.val, brand_name) /\ Has(cfgs.val[brand_name], "configs")
    THEN LET items == Sorted(DOMAIN cfgs.val[brand_name].configs)
         IN [countries |-> items, country |-> FirstText(items)]
    ELSE [countries |-> <<>>, country |-> <<>>]

\* BrandCountrySelector(configs) followed by show()
NewSelector(cfgs) ==
    LET brands == ValidBrands(cfgs)
        brand == FirstText(brands)
        cc == UpdateCountries(cfgs, brand)
    IN [exists |-> TRUE, shown |-> TRUE, valid_brands |-> brands, brand |-> brand,
        countries |-> cc.countries, country |-> cc.country]

\* download_configs succeeds; QApplication, selector = BrandCountrySelector(configs),
\* selector.show(), app.exec_()
Startup(cfgs) ==
    /\ pc = "start"
    /\ pc' = "running"
    /\ configs' = cfgs
    /\ selector' = NewSelector(cfgs)
    /\ UNCHANGED <<exit_status, error, browser_window, lastNav, popup, popupsCreated,
                   clipboard>>

\* as DownloadFails, but without sys.exit: start-up goes on with an empty config
DownloadFailsContinues(aborted) ==
    /\ pc = "start"
    /\ pc' = "running"
    /\ error' = [kind |-> "fetch", key |-> <<>>, dialog |-> FALSE]
    /\ selector' = NewSelector(ConfigNoBrands)
    /\ UNCHANGED <<exit_status, configs, browser_window, lastNav, popup, popupsCreated,
                   clipboard>>

\* download_configs fails: the error is printed, QMessageBox.critical is called
\* (no QApplication exists yet, so Qt either shows it or aborts the process),
\* sys.exit(1)
DownloadFails(aborted) ==
    /\ pc = "start"
    /\ pc' = "exited"
    /\ error' = [kind |-> "fetch", key |-> <<>>, dialog |-> FALSE]
    /\ exit_status' = IF aborted THEN 134 ELSE 1
    /\ UNCHANGED <<configs, selector, browser_window, lastNav, popup, popupsCreated,
                   clipboard>>

\* ------------------------------------------------------------------------
\* Selector screen
\* ------------------------------------------------------------------------

\* the selector accepts input: it is on screen and no modal dialog blocks it
SelectorActive == pc = "running" /\ selector.shown /\ ~error.dialog

\* the user picks another item of brand_combo; currentTextChanged calls
\* update_countries
SelectBrand(i) ==
    /\ SelectorActive
    /\ i \in 1..Len(selector.valid_brands)
    /\ selector.valid_brands[i] # selector.brand
    /\ LET cc == UpdateCountries(configs, selector.valid_brands[i])
       IN selector' = [selector EXCEPT !.brand = selector.valid_brands[i],
                                       !.countries = cc.countries,
                                       !.country = cc.country]
    /\ UNCHANGED <<pc, exit_status, configs, error, browser_window, lastNav, popup,
                   popupsCreated, clipboard>>

\* the user picks another item of country_combo
SelectCountry(j) ==
    /\ SelectorActive
    /\ j \in 1..Len(selector.countries)
    /\ selector.countries[j] # selector.country
    /\ selector' = [selector EXCEPT !.country = selector.countries[j]]
    /\ UNCHANGED <<pc, exit_status, configs, error, browser_window, lastNav, popup,
                   popupsCreated, clipboard>>

\* the key of the first KeyError the lookups of launch_browser raise, in the
\* order they are made; <<"ok">> when none raises
MissingKey(cfgs, brand, country) ==
    IF ~Has(cfgs.val, brand) THEN <<"key", brand>>
    ELSE LET cfg == cfgs.val[brand]
         IN IF ~Has(cfg, "configs") THEN <<"key", KeyText("configs")>>
            ELSE IF ~Has(cfg.configs, country) THEN <<"key", country>>
            ELSE IF ~Has(cfg, "oauth_url") THEN <<"key", KeyText("oauth_url")>>
            ELSE IF ~Has(cfg, "scheme") THEN <<"key", KeyText("scheme")>>
            ELSE IF ~Has(cfg.configs[country], "locale") THEN <<"key", KeyText("locale")>>
            ELSE IF ~Has(cfg.configs[country], "client_id")
                 THEN <<"key", KeyText("client_id")>>
            ELSE <<"ok">>

\* as AuthUrl, but with the country code as selected, not lower-cased
AuthUrlNoLower(oauth_url, client_id, scheme, country, locale_code) ==
    oauth_url \o <<"/","a","m","/","o","a","u","t","h","2","/","a","u","t","h","o","r","i","z","e","?","c","l","i","e","n","t","_","i","d","=">> \o client_id
      \o <<"&","r","e","s","p","o","n","s","e","_","t","y","p","e","=","c","o","d","e">>
      \o <<"&","r","e","d","i","r","e","c","t","_","u","r","i","=">> \o scheme \o <<":","/","/","o","a","u","t","h","2","r","e","d","i","r","e","c","t","/">> \o country
      \o <<"&","s","c","o","p","e","=","o","p","e","n","i","d","%","2","0","p","r","o","f","i","l","e","%","2","0","e","m","a","i","l","&","l","o","c","a","l","e","=">> \o locale_code

\* the f-string of launch_browser
AuthUrl(oauth_url, client_id, scheme, country, locale_code) ==
    oauth_url \o <<"/","a","m","/","o","a","u","t","h","2","/","a","u","t","h","o","r","i","z","e","?","c","l","i","e","n","t","_","i","d","=">> \o client_id
      \o <<"&","r","e","s","p","o","n","s","e","_","t","y","p","e","=","c","o","d","e">>
      \o <<"&","r","e","d","i","r","e","c","t","_","u","r","i","=">> \o scheme \o <<":","/","/","o","a","u","t","h","2","r","e","d","i","r","e","c","t","/">> \o Lower(country)
      \o <<"&","s","c","o","p","e","=","o","p","e","n","i","d","%","2","0","p","r","o","f","i","l","e","%","2","0","e","m","a","i","l","&","l","o","c","a","l","e","=">> \o locale_code

\* OAuthBrowser(auth_url, scheme) followed by show()
NewBrowser(auth_url, scheme) ==
    [exists |-> TRUE, shown |-> TRUE, auth_url |-> auth_url, scheme |-> scheme]

\* as launch_browser, but self.close() also runs after a KeyError
launch_browser_ClosesOnError ==
    /\ SelectorActive
    /\ LET brand == selector.brand
           country == selector.country
           missing == MissingKey(configs, brand, country)
       IN IF missing[1] = "ok"
          THEN LET cfg == configs.val[brand]
                   country_cfg == cfg.configs[country]
               IN /\ browser_window' = NewBrowser(AuthUrl(cfg.oauth_url,
                                                          country_cfg.client_id,
                                                          cfg.scheme, country,
                                                          country_cfg.locale),
                                                  cfg.scheme)
                  /\ selector' = [selector EXCEPT !.shown = FALSE]
                  /\ UNCHANGED error
          ELSE /\ error' = [kind |-> "key", key |-> missing[2], dialog |-> TRUE]
               /\ selector' = [selector EXCEPT !.shown = FALSE]
               /\ UNCHANGED browser_window
    /\ UNCHANGED <<pc, exit_status, configs, lastNav, popup, popupsCreated, clipboard>>

\* the Continue button: launch_browser
launch_browser ==
    /\ SelectorActive
    /\ LET brand == selector.brand
           country == selector.country
           missing == MissingKey(configs, brand, country)
       IN IF missing[1] = "ok"
          THEN LET cfg == configs.val[brand]
                   country_cfg == cfg.configs[country]
               IN /\ browser_window' = NewBrowser(AuthUrl(cfg.oauth_url,
                                                          country_cfg.client_id,
                                                          cfg.scheme, country,
                                                          country_cfg.locale),
                                                  cfg.scheme)
                  /\ selector' = [selector EXCEPT !.shown = FALSE]
                  /\ UNCHANGED error
          ELSE /\ error' = [kind |-> "key", key |-> missing[2], dialog |-> TRUE]
               /\ UNCHANGED <<browser_window, selector>>
    /\ UNCHANGED <<pc, exit_status, configs, lastNav, popup, popupsCreated, clipboard>>

\* the user closes the modal QMessageBox.critical of launch_browser, which
\* then returns
DismissDialog ==
    /\ pc = "running"
    /\ error.dialog
    /\ error' = NoError
    /\ UNCHANGED <<pc, exit_status, configs, selector, browser_window, lastNav, popup,
                   popupsCreated, clipboard>>

\* ------------------------------------------------------------------------
\* Navigation targets the embedded browser may ask about
\* ------------------------------------------------------------------------

\* '&'-separated fields a redirect query is made of
Pieces == {<<"c","o","d","e","=","A">>, <<"c","o","d","e","=">>, <<"s","t","a","t","e","=","x">>, <<"c","o","d","e","=","+","%","2","B">>}

RECURSIVE JoinAmp(_)
\* '&'.join(fields)
JoinAmp(fields) == IF fields = <<>> THEN <<>>
                   ELSE IF Len(fields) = 1 THEN fields[1]
                   ELSE fields[1] \o <<"&">> \o JoinAmp(Tail(fields))

\* every query of at most MaxParams fields
Queries == {JoinAmp(fs) : fs \in UNION {[1..n -> Pieces] : n \in 0..MaxParams}}

RedirectBase(scheme) == SchemePrefix(scheme) \o <<"o","a","u","t","h","2","r","e","d","i","r","e","c","t","/","f","r">>

\* URLs that start with "<scheme>://"
RedirectUrls(scheme) ==
    {RedirectBase(scheme)}
      \cup {RedirectBase(scheme) \o <<"?">> \o q : q \in Queries}
      \cup {RedirectBase(scheme) \o tail :
              tail \in {<<"#","f","?","c","o","d","e","=","A">>, <<"?","c","o","d","e","=","A","#","c","o","d","e","=","C">>, <<"?","c","o","d","e","&","s","t","a","t","e","=","x">>,
                        <<"?","&","c","o","d","e","=","C","&">>, <<"?","c","%","6","F","d","e","=","C","&","c","o","d","e","=","A">>}}

\* the scheme with its first letter in upper case
Capitalised(scheme) ==
    [i \in 1..Len(scheme) |->
       IF i = 1 /\ IsIn(LowerLetters, scheme[i])
       THEN UpperLetters[IndexIn(LowerLetters, scheme[i])] ELSE scheme[i]]

\* URLs that do not start with "<scheme>://"
OtherUrls(scheme) ==
    {<<"h","t","t","p","s",":","/","/","d",".","s","/","l","o","g","i","n">>, <<"h","t","t","p","s",":","/","/","d",".","s","/","c","b","?","c","o","d","e","=","A">>, <<>>, scheme,
     Capitalised(scheme) \o <<":","/","/","o","a","u","t","h","2","r","e","d","i","r","e","c","t","/","f","r","?","c","o","d","e","=","A">>,
     scheme \o <<":","/","o","a","u","t","h","2","r","e","d","i","r","e","c","t","/","f","r","?","c","o","d","e","=","A">>,
     scheme \o <<"x",":","/","/","o","a","u","t","h","2","r","e","d","i","r","e","c","t","/","f","r","?","c","o","d","e","=","A">>,
     <<"x">> \o scheme \o <<":","/","/","o","a","u","t","h","2","r","e","d","i","r","e","c","t","/","f","r","?","c","o","d","e","=","A">>,
     IF scheme = SchemeDS THEN RedirectBase(SchemeOpel) \o <<"?","c","o","d","e","=","A">>
                          ELSE RedirectBase(SchemeDS) \o <<"?","c","o","d","e","=","A">>}

NavUrlsDS == RedirectUrls(SchemeDS) \cup OtherUrls(SchemeDS)

NavUrlsOpel == RedirectUrls(SchemeOpel) \cup OtherUrls(SchemeOpel)

\* the targets tried against a page configured with scheme
NavUrls(scheme) == IF scheme = SchemeDS THEN NavUrlsDS
                   ELSE IF scheme = SchemeOpel THEN NavUrlsOpel
                   ELSE {}

\* ------------------------------------------------------------------------
\* Embedded browser, redirect interceptor, result popup
\* ------------------------------------------------------------------------

\* OAuthPopup(code) followed by show()
NewPopup(code, id) == [exists |-> TRUE, shown |-> TRUE, id |-> id, code |-> code]

\* CustomWebPage.acceptNavigationRequest(url, nav_type, is_main_frame) with
\* url.toString() = url_str; engine is what the base class answers when asked.
\* The page lives as long as selector.browser_window holds the closed window.
acceptNavigationRequest(url_str) ==
    /\ pc = "running"
    /\ browser_window.exists
    /\ IF IsRedirect(url_str, browser_window.scheme)
       THEN \* show_oauth_popup(code); return False
            /\ popupsCreated < MaxPopups
            /\ popup' = NewPopup(ExtractCode(url_str), popupsCreated + 1)
            /\ popupsCreated' = popupsCreated + 1
            /\ browser_window' = [browser_window EXCEPT !.shown = FALSE]
            /\ lastNav' = [seen |-> TRUE, url |-> url_str, engine |-> TRUE,
                           returned |-> FALSE]
       ELSE \* return super().acceptNavigationRequest(...)
            /\ \E engine \in BOOLEAN :
                  lastNav' = [seen |-> TRUE, url |-> url_str, engine |-> engine,
                              returned |-> engine]
            /\ UNCHANGED <<popup, popupsCreated, browser_window>>
    /\ UNCHANGED <<pc, exit_status, configs, selector, error, clipboard>>

RECURSIVE Strip(_)
\* str.strip on blanks
Strip(t) == IF t = <<>> THEN <<>>
            ELSE IF Head(t) = " " THEN Strip(Tail(t))
            ELSE IF t[Len(t)] = " " THEN Strip(SubSeq(t, 1, Len(t) - 1))
            ELSE t

\* as SetClipboardText, but with the code stripped of surrounding blanks
SetClipboardTextStripped(code) == [written |-> TRUE, text |-> Strip(code)]

\* QApplication.clipboard().setText(code)
SetClipboardText(code) == [written |-> TRUE, text |-> code]

\* the copy button of the popup on screen
CopyCode ==
    /\ pc = "running"
    /\ popup.exists /\ popup.shown
    /\ clipboard' = SetClipboardText(popup.code)
    /\ UNCHANGED <<pc, exit_status, configs, selector, error, browser_window, lastNav,
                   popup, popupsCreated>>

\* ------------------------------------------------------------------------
\* Specification
\* ------------------------------------------------------------------------

Next == \/ \E cfgs \in Configs : Startup(cfgs)
        \/ \E aborted \in BOOLEAN : DownloadFails(aborted)
        \/ \E i \in 1..Len(selector.valid_brands) : SelectBrand(i)
        \/ \E j \in 1..Len(selector.countries) : SelectCountry(j)
        \/ launch_browser
        \/ DismissDialog
        \/ \E url_str \in NavUrls(browser_window.scheme) :
              acceptNavigationRequest(url_str)
        \/ CopyCode

Spec == Init /\ [][Next]_vars

\* ------------------------------------------------------------------------
\* The properties, stated from the specification
\* ------------------------------------------------------------------------

\* url begins with the characters of scheme followed by ':', '/', '/'
BeginsWithScheme(url, scheme) ==
    LET n == Len(scheme)
    IN /\ Len(url) >= n + 3
       /\ \A i \in 1..n : url[i] = scheme[i]
       /\ url[n + 1] = ":" /\ url[n + 2] = "/" /\ url[n + 3] = "/"

\* the last navigation attempt was one for the custom scheme of the page
LastNavIsRedirect == /\ lastNav.seen
                     /\ BeginsWithScheme(lastNav.url, browser_window.scheme)

\* C1: a navigation attempt is denied exactly when its URL begins with
\* "<scheme>://" of the page, compared case-sensitively; for any other URL the
\* handler returns what the engine answers, and only an attempt for the custom
\* scheme opens a popup
C1_VetoIffScheme ==
    /\ [](lastNav.seen =>
            IF BeginsWithScheme(lastNav.url, browser_window.scheme)
            THEN ~lastNav.returned
            ELSE lastNav.returned = lastNav.engine)
    /\ [][(popupsCreated' # popupsCreated \/ popup' # popup)
            => BeginsWithScheme(lastNav'.url, browser_window'.scheme)]_vars

\* C1: a URL for the custom scheme was denied, and one that differs from it
\* only by case was let through to the engine
C1_Witness == /\ LastNavIsRedirect
              /\ ~lastNav.returned
              /\ popup.exists

\* C2: the interceptor fires once per flow: at most one OAuthPopup is ever
\* created, whatever navigation attempts follow the first capture
C2_FiresOnce == popupsCreated <= 1

\* the fields of the query of url, in query order
QueryFields(url) == Split(UrlQuery(url), "&")

\* the name of a field: what precedes its first '=', decoded
FieldName(f) == LET e == Find(f, "=")
                IN Unquote(PlusToSpace(IF e = 0 THEN f ELSE SubSeq(f, 1, e - 1)))

\* the value of a field as written in the URL: what follows its first '='
FieldRawValue(f) == LET e == Find(f, "=")
                    IN IF e = 0 THEN <<>> ELSE SubSeq(f, e + 1, Len(f))

\* the positions of the `code` parameters of url that have a non-empty value
CodeFields(url) == {i \in 1..Len(QueryFields(url)) :
                      /\ FieldName(QueryFields(url)[i]) = CodeKey
                      /\ FieldRawValue(QueryFields(url)[i]) # <<>>}

\* the value, as written in the URL, of the first `code` parameter with a value
FirstCodeRaw(url) ==
    FieldRawValue(QueryFields(url)[CHOOSE i \in CodeFields(url) :
                                     \A j \in CodeFields(url) : i <= j])

\* C3 as stated: the code handed to the popup is exactly the value of the
\* first `code` parameter of the intercepted URL
C3_FirstCodeExact ==
    (LastNavIsRedirect /\ CodeFields(lastNav.url) # {})
       => popup.code = FirstCodeRaw(lastNav.url)

\* C3, amended: the code handed to the popup is the value of the first `code`
\* parameter that has a non-empty value, with '+' read as a blank and %XX
\* escapes decoded, whatever parameters precede or follow it
C3_FirstCodeDecoded ==
    (LastNavIsRedirect /\ CodeFields(lastNav.url) # {})
       => popup.code = Unquote(PlusToSpace(FirstCodeRaw(lastNav.url)))

\* C3: a redirect with two valued `code` parameters was intercepted
C3_Witness == /\ LastNavIsRedirect
              /\ Cardinality(CodeFields(lastNav.url)) >= 2
              /\ popup.exists
              /\ popup.code # <<>>

\* C4: an intercepted URL without a valued `code` parameter completes the flow
\* with the empty code: the navigation is denied, the browser window gives way
\* to the popup, the popup holds "", and no error is reported
C4_EmptyCodeCompletes ==
    (LastNavIsRedirect /\ CodeFields(lastNav.url) = {})
       => /\ ~lastNav.returned
          /\ popup.exists /\ popup.shown
          /\ popup.code = <<>>
          /\ ~browser_window.shown
          /\ error = NoError
          /\ pc = "running"

\* C4: a redirect whose query has no valued `code` parameter was intercepted
C4_Witness == /\ LastNavIsRedirect
              /\ CodeFields(lastNav.url) = {}
              /\ UrlQuery(lastNav.url) # <<>>
              /\ popup.exists

\* the country codes configured for a brand: none when the brand or its
\* "configs" key is missing
CountriesOf(cfgs, brand) ==
    IF Has(cfgs.val, brand) /\ Has(cfgs.val[brand], "configs")
    THEN DOMAIN cfgs.val[brand].configs
    ELSE {}

\* the elements of a sequence
Elements(seq) == {seq[i] : i \in 1..Len(seq)}

\* C5: a brand is selectable exactly when it has at least one country
C5_SelectableIffCountries ==
    selector.exists =>
      \A b \in DOMAIN configs.val :
         (b \in Elements(selector.valid_brands)) <=> (CountriesOf(configs, b) # {})

\* the authorization URL as the specification's template gives it
TemplateUrl(oauth_url, client_id, scheme, country, locale_code) ==
    Flatten(<<oauth_url, <<"/","a","m","/","o","a","u","t","h","2","/","a","u","t","h","o","r","i","z","e","?","c","l","i","e","n","t","_","i","d","=">>, client_id,
              <<"&","r","e","s","p","o","n","s","e","_","t","y","p","e","=","c","o","d","e","&","r","e","d","i","r","e","c","t","_","u","r","i","=">>, scheme, <<":","/","/","o","a","u","t","h","2","r","e","d","i","r","e","c","t","/">>,
              Lower(country),
              <<"&","s","c","o","p","e","=","o","p","e","n","i","d","%","2","0","p","r","o","f","i","l","e","%","2","0","e","m","a","i","l","&","l","o","c","a","l","e","=">>, locale_code>>)

\* C6: the URL the browser is opened with is the template filled in with the
\* selected brand's oauth_url and scheme and the selected country's client_id
\* and locale, and the interceptor is given that same scheme
C6_AuthUrlIsTemplate ==
    browser_window.exists =>
      /\ selector.country \in CountriesOf(configs, selector.brand)
      /\ LET cfg == configs.val[selector.brand]
             country_cfg == cfg.configs[selector.country]
         IN /\ browser_window.auth_url =
                  TemplateUrl(cfg.oauth_url, country_cfg.client_id, cfg.scheme,
                              selector.country, country_cfg.locale)
            /\ browser_window.scheme = cfg.scheme

\* C6: the browser was opened for a country written in upper case
C6_Witness == /\ browser_window.exists
              /\ selector.country = CountryFR
              /\ Lower(selector.country) # selector.country

\* the expected keys that the selection (brand, country) does not find
AbsentKeys(cfgs, brand, country) ==
    IF ~Has(cfgs.val, brand) THEN {brand}
    ELSE LET cfg == cfgs.val[brand]
         IN {KeyText(f) : f \in {"configs", "oauth_url", "scheme"} \ DOMAIN cfg}
              \cup (IF ~Has(cfg, "configs") THEN {}
                    ELSE IF ~Has(cfg.configs, country) THEN {country}
                    ELSE {KeyText(f) : f \in {"locale", "client_id"}
                                                \ DOMAIN cfg.configs[country]})

\* C7: a confirmation that misses a key reports that key and goes no further:
\* the browser is opened only when no key is absent, the error names an absent
\* key, no browser exists, the selector stays on screen, and reporting the
\* error and dismissing it leave the config and the selections as they were
C7_MissingKeyStops ==
    /\ [](browser_window.exists
            => AbsentKeys(configs, selector.brand, selector.country) = {})
    /\ [](error.dialog =>
            /\ error.kind = "key"
            /\ error.key \in AbsentKeys(configs, selector.brand, selector.country)
            /\ ~browser_window.exists
            /\ selector.shown)
    /\ [][error'.dialog # error.dialog =>
            /\ selector' = selector
            /\ configs' = configs
            /\ browser_window' = browser_window]_vars

\* C7: the missing-key error is on screen over the open selector
C7_Witness == /\ error.dialog
              /\ error.kind = "key"
              /\ selector.shown
              /\ ~browser_window.exists

\* C8: a failed download is fatal: the error is reported, the process has
\* ended with a failure status, no selector, browser or popup exists, no
\* config is held, and nothing happens after the exit
C8_FetchFailureFatal ==
    /\ [](error.kind = "fetch" =>
            /\ pc = "exited"
            /\ exit_status # 0
            /\ ~selector.exists /\ ~selector.shown
            /\ ~browser_window.exists
            /\ ~popup.exists
            /\ configs = ConfigNoBrands)
    /\ [][pc # "exited"]_vars

\* C8: the download failed and the process has exited
C8_Witness == /\ pc = "exited"
              /\ error.kind = "fetch"
              /\ exit_status # 0

\* C9: the clipboard changes only by the copy action of the popup on screen,
\* which stores that popup's code as it is; a popup's code never changes
C9_CopyVerbatim ==
    /\ [][clipboard' # clipboard =>
            /\ popup.exists /\ popup.shown
            /\ popup' = popup
            /\ clipboard'.written
            /\ clipboard'.text = popup.code]_vars
    /\ [][(popup.exists /\ popup'.id = popup.id) => popup'.code = popup.code]_vars
    /\ [](clipboard.written => popup.exists)

\* C9: a code that begins with a blank was copied, blank included
C9_Witness == /\ clipboard.written
              /\ popup.exists
              /\ clipboard.text = popup.code
              /\ clipboard.text # <<>>
              /\ clipboard.text[1] = " "

\* C10: the country list is the selected brand's country codes in ascending
\* order, each once; the selected country is one of them, or empty when there
\* are none; a brand switch selects the first country of the new brand
C10_CountriesOfBrand ==
    /\ [](selector.exists =>
            /\ Elements(selector.countries) = CountriesOf(configs, selector.brand)
            /\ \A i, j \in 1..Len(selector.countries) :
                  i < j => StrLess(selector.countries[i], selector.countries[j])
            /\ IF selector.countries = <<>>
               THEN selector.country = <<>>
               ELSE selector.country \in CountriesOf(configs, selector.brand))
    /\ [][(selector.exists /\ selector'.brand # selector.brand)
            => selector'.country = FirstText(selector'.countries)]_vars

\* C10: after a switch away from the first brand, a brand with several
\* countries is selected
C10_Witness == /\ selector.exists
               /\ selector.brand # FirstText(selector.valid_brands)
               /\ Len(selector.countries) >= 2

====
